---- MODULE Spec2Model ----
(***************************************************************************)
(* Model of scripts/modernize/create_refactor_issues.py: the plan parser   *)
(* (parse_refactor_plan), the issue synthesis (get_priority_label, labels, *)
(* create_issue_body) and the batch loop of main(); and of                 *)
(* scripts/modernize/assess_codebase.py: the per-file metrics              *)
(* (count_lines, detect_complexity, find_todos), analyze_codebase and      *)
(* generate_assessment_report.                                             *)
(*                                                                         *)
(* Text is a sequence of symbols.  A symbol is either one character        *)
(* ("#", " ", "\n", ":", "-", "[", "]", a digit) or an atom: a fixed       *)
(* string without whitespace and without "#" that the regular expressions  *)
(* of the parser can only match as a whole (a label such as                *)
(* "**Priority**:", a word such as "High" or "TASK").                     *)
(* Concatenating the symbols of a text gives the text the program reads.   *)
(***************************************************************************)
EXTENDS Integers, Sequences, FiniteSets, TLC

VARIABLES
    pc,             \* position of main(): start, parsed, loop, call, done, raised, rt_*
    plan_exists,    \* plan_file.exists()
    content,        \* the text of the plan file
    tasks,          \* result of parse_refactor_plan
    api,            \* "none" until GitHubAPI() has been constructed
    idx,            \* number of tasks the for loop has taken so far
    created_issues, \* list of <<task id, issue number>>
    failed_issues,  \* list of task ids
    calls,          \* history: every create_issue call made, in order
    results,        \* history: outcome of every finished create_issue call
    next_number,    \* tracker state: number the next created issue gets
    exit_code,      \* "none" until main() returns, then 0 or 1
    record,         \* round trip: the TaskRecord that is rendered and re-parsed
    priority_arg,   \* argument of get_priority_label
    label_ret,      \* "none" until get_priority_label has returned
    file_text,      \* characters of the Python file detect_complexity reads
    analysis,       \* scores and result of the last detect_complexity run
    prev_analysis,  \* the run before a keyword was inserted
    inserted,       \* the insertion made between the two runs
    root,           \* the directory tree analyze_codebase scans
    scan_pos,       \* number of files the scan loops have taken so far
    assessment,     \* the results dictionary of analyze_codebase
    visited,        \* history: path of every file the scan has processed
    now,            \* the clock datetime.now() reads
    reports         \* history: every report text generated, in order

issue_vars == <<plan_exists, content, tasks, api, idx, created_issues,
                failed_issues, calls, results, next_number, exit_code, record>>

label_vars == <<priority_arg, label_ret>>

complexity_vars == <<file_text, analysis, prev_analysis, inserted>>

assess_vars == <<root, scan_pos, assessment, visited, now, reports>>

aux_vars == <<label_vars, complexity_vars, assess_vars>>

vars == <<pc, issue_vars, aux_vars>>

(***************************************************************************)
(* Bounds of the model.                                                    *)
(***************************************************************************)
MaxSegs == 3
MaxItems == 2
MaxPriorityLen == 2
MaxFiles == 2
MaxCodeSegs == 3
MaxList == 3
MaxOver == 2
MaxClock == 1
MaxReports == 2

(***************************************************************************)
(* Numbers of scripts/modernize/assess_codebase.py.                        *)
(***************************************************************************)
\* a file is large with more lines than this
LargeThreshold == 500
\* a function is reported with a higher score than this
ComplexityThreshold == 10
\* the list sections show this many entries
TopN == 10
\* the TODO section shows every entry up to this many
TodoShowAll == 20

(***************************************************************************)
(* Symbols.                                                                *)
(***************************************************************************)
NL == "\n"
SP == " "
H4 == <<"#", "#", "#", "#">>
TASK == <<"TASK", "-">>
L_PRIORITY == "**Priority**:"
L_RISK == "**Risk**:"
L_EFFORT == "**Effort**:"
L_WHAT == "**What**:"
L_WHY == "**Why**:"
L_CRITERIA == "**Acceptance Criteria**:"
L_DEPS == "**Dependencies**:"

Digits == {"0", "1", "2", "3", "4", "5", "6", "7", "8", "9"}

\* the words of the model: <<lower case, upper case>>, and the capitalised
\* forms <<as written, lower case>>
CaseTable == {<<"urgent", "URGENT">>, <<"high", "HIGH">>, <<"medium", "MEDIUM">>,
              <<"low", "LOW">>, <<"critical", "CRITICAL">>, <<"fix", "FIX">>,
              <<"bug", "BUG">>, <<"days", "DAYS">>, <<"none", "NONE">>,
              <<"tbd", "TBD">>, <<"notes", "NOTES">>, <<"task", "TASK">>,
              <<"a", "A">>, <<"b", "B">>, <<"x", "X">>,
              <<"unknown", "UNKNOWN">>}
Capitalised == {<<"High", "high">>, <<"Critical", "critical">>, <<"Fix", "fix">>,
                <<"None", "none">>, <<"Notes", "notes">>, <<"Urgent", "urgent">>,
                <<"Medium", "medium">>, <<"Low", "low">>}
Words == {t[1] : t \in CaseTable} \cup {t[2] : t \in CaseTable}
            \cup {t[1] : t \in Capitalised}

\* \s of the re module
IsSpace(c) == c \in {SP, NL, "\t"}
\* \d
IsDigit(c) == c \in Digits
\* \w
IsWord(c) == c \in Digits \cup Words

\* str.lower() on one symbol
LowerSym(c) ==
    IF \E t \in CaseTable : t[2] = c
    THEN (CHOOSE t \in CaseTable : t[2] = c)[1]
    ELSE IF \E t \in Capitalised : t[1] = c
         THEN (CHOOSE t \in Capitalised : t[1] = c)[2]
         ELSE c

\* str.upper() on one symbol
UpperSym(c) ==
    IF \E t \in CaseTable : t[1] = LowerSym(c)
    THEN (CHOOSE t \in CaseTable : t[1] = LowerSym(c))[2]
    ELSE c

Lower(s) == [k \in 1..Len(s) |-> LowerSym(s[k])]
Upper(s) == [k \in 1..Len(s) |-> UpperSym(s[k])]

Min(S) == CHOOSE x \in S : \A y \in S : x <= y
Max(S) == CHOOSE x \in S : \A y \in S : x >= y

\* the literal lit occurs in s at position p
HasAt(s, p, lit) ==
    /\ p >= 1
    /\ p + Len(lit) - 1 <= Len(s)
    /\ \A k \in 1..Len(lit) : s[p + k - 1] = lit[k]

\* first position >= p that is past the end of s or holds no whitespace
SpaceRunEnd(s, p) ==
    Min({q \in p..(Len(s) + 1) : q = Len(s) + 1 \/ ~IsSpace(s[q])})

DigitRunEnd(s, p) ==
    Min({q \in p..(Len(s) + 1) : q = Len(s) + 1 \/ ~IsDigit(s[q])})

WordRunEnd(s, p) ==
    Min({q \in p..(Len(s) + 1) : q = Len(s) + 1 \/ ~IsWord(s[q])})

\* first position >= p that is past the end of s or holds a newline: where
\* a greedy .+ (without DOTALL) started at p stops
LineEnd(s, p) ==
    Min({q \in p..(Len(s) + 1) : q = Len(s) + 1 \/ s[q] = NL})

\* str.strip()
Strip(s) ==
    LET keep == {k \in 1..Len(s) : ~IsSpace(s[k])}
    IN  IF keep = {} THEN <<>> ELSE SubSeq(s, Min(keep), Max(keep))

\* str.split('\n')[0]
FirstLine(s) == SubSeq(s, 1, LineEnd(s, 1) - 1)

(***************************************************************************)
(* task_pattern = r'####\s+TASK-(\d+):\s+(.+?)(?=####|$)' with re.DOTALL.   *)
(* A match that starts at p: "####", all the whitespace that follows (what *)
(* follows it must be "TASK-", so \s+ gives nothing back), "TASK-", all    *)
(* the digits, ":", whitespace, and a lazy non-empty group 2 that ends at  *)
(* the first "####", at the end of the text, or before a newline that ends *)
(* the text.  The second \s+ is greedy and gives back one character only   *)
(* when the whitespace runs to the end of the text, since group 2 needs    *)
(* one character.                                                          *)
(***************************************************************************)
HeadIdFrom(s, p) == SpaceRunEnd(s, p + 4) + 2
HeadIdEnd(s, p) == DigitRunEnd(s, HeadIdFrom(s, p))
HeadBlockFrom(s, p) ==
    LET f == SpaceRunEnd(s, HeadIdEnd(s, p) + 1)
    IN  IF f <= Len(s) THEN f ELSE f - 1

HeadMatchAt(s, p) ==
    /\ HasAt(s, p, H4)
    /\ SpaceRunEnd(s, p + 4) > p + 4
    /\ HasAt(s, SpaceRunEnd(s, p + 4), TASK)
    /\ HeadIdEnd(s, p) > HeadIdFrom(s, p)
    /\ HasAt(s, HeadIdEnd(s, p), <<":">>)
    /\ HeadBlockFrom(s, p) > HeadIdEnd(s, p) + 1
    /\ HeadBlockFrom(s, p) <= Len(s)

\* one past the last symbol of group 2, for a group that starts at g
BlockEnd(s, g) ==
    Min({x \in (g + 1)..(Len(s) + 1) :
            \/ HasAt(s, x, H4)
            \/ x = Len(s) + 1
            \/ (x = Len(s) /\ s[x] = NL)})

(***************************************************************************)
(* re.search of r'<label>\s+(\w+)': the leftmost label that is followed by *)
(* whitespace and a word; group 1, or <<>> when nothing matches.           *)
(***************************************************************************)
WordFieldAt(b, p, label) ==
    /\ b[p] = label
    /\ SpaceRunEnd(b, p + 1) > p + 1
    /\ WordRunEnd(b, SpaceRunEnd(b, p + 1)) > SpaceRunEnd(b, p + 1)

\* variant: the rightmost match is taken
SearchWordLastMatch(b, label) ==
    LET P == {p \in 1..Len(b) : WordFieldAt(b, p, label)}
    IN  IF P = {} THEN <<>>
        ELSE LET w == SpaceRunEnd(b, Max(P) + 1)
             IN  SubSeq(b, w, WordRunEnd(b, w) - 1)

SearchWord(b, label) ==
    LET P == {p \in 1..Len(b) : WordFieldAt(b, p, label)}
    IN  IF P = {} THEN <<>>
        ELSE LET w == SpaceRunEnd(b, Min(P) + 1)
             IN  SubSeq(b, w, WordRunEnd(b, w) - 1)

(***************************************************************************)
(* re.search of r'<label>\s+(.+)': \s+ is greedy and gives whitespace back *)
(* until the symbol after it exists and is no newline; group 1 runs to the *)
(* end of that line.                                                       *)
(***************************************************************************)
LineStarts(b, p) ==
    {g \in (p + 2)..SpaceRunEnd(b, p + 1) : g <= Len(b) /\ b[g] # NL}

LineFieldAt(b, p, label) == b[p] = label /\ LineStarts(b, p) # {}

SearchLine(b, label) ==
    LET P == {p \in 1..Len(b) : LineFieldAt(b, p, label)}
    IN  IF P = {} THEN <<>>
        ELSE LET g == Max(LineStarts(b, Min(P)))
             IN  SubSeq(b, g, LineEnd(b, g) - 1)

(***************************************************************************)
(* re.search of r'<label>\s*\n((?:- .+\n?)+)' and, for the criteria, of    *)
(* r'<label>\s*\n((?:- \[.\] .+\n?)+)'.                                    *)
(***************************************************************************)
ItemPrefix(b, q, checkbox) ==
    IF checkbox
    THEN /\ HasAt(b, q, <<"-", SP, "[">>)
         /\ q + 5 <= Len(b)
         /\ b[q + 3] # NL
         /\ b[q + 4] = "]"
         /\ b[q + 5] = SP
    ELSE HasAt(b, q, <<"-", SP>>)

PrefixLen(checkbox) == IF checkbox THEN 6 ELSE 2

\* one list item starts at q
ItemAt(b, q, checkbox) ==
    /\ ItemPrefix(b, q, checkbox)
    /\ q + PrefixLen(checkbox) <= Len(b)
    /\ b[q + PrefixLen(checkbox)] # NL

\* one past the item that starts at q, its optional newline included
ItemEnd(b, q, checkbox) ==
    LET e == LineEnd(b, q + PrefixLen(checkbox))
    IN  IF e <= Len(b) THEN e + 1 ELSE e

\* variant: the list ends after its first item
ItemsEndFirstOnly(b, q, checkbox) ==
    IF ItemAt(b, q, checkbox) THEN ItemEnd(b, q, checkbox) ELSE q

RECURSIVE ItemsEnd(_, _, _)
ItemsEnd(b, q, checkbox) ==
    IF ItemAt(b, q, checkbox)
    THEN ItemsEnd(b, ItemEnd(b, q, checkbox), checkbox)
    ELSE q

\* the positions of the newline that \s*\n can end on so that a list follows
ListStarts(b, p, checkbox) ==
    {j \in (p + 1)..(SpaceRunEnd(b, p + 1) - 1) :
        b[j] = NL /\ ItemAt(b, j + 1, checkbox)}

ListFieldAt(b, p, label, checkbox) ==
    b[p] = label /\ ListStarts(b, p, checkbox) # {}

SearchList(b, label, checkbox) ==
    LET P == {p \in 1..Len(b) : ListFieldAt(b, p, label, checkbox)}
    IN  IF P = {} THEN <<>>
        ELSE LET q == Max(ListStarts(b, Min(P), checkbox)) + 1
             IN  SubSeq(b, q, ItemsEnd(b, q, checkbox) - 1)

(***************************************************************************)
(* The fields of one task, from group 1 (the digits) and group 2 (the      *)
(* block) of a match of task_pattern.                                      *)
(***************************************************************************)
TaskTitle(block) == Strip(FirstLine(Strip(block)))

\* variant: the priority is kept as written, without lower()
TaskPriorityNoLower(block) ==
    IF SearchWord(block, L_PRIORITY) # <<>>
    THEN SearchWord(block, L_PRIORITY)
    ELSE <<"medium">>

TaskPriority(block) ==
    IF SearchWord(block, L_PRIORITY) # <<>>
    THEN Lower(SearchWord(block, L_PRIORITY))
    ELSE <<"medium">>

\* variant: a missing risk falls back to 'low'
TaskRiskDefaultsLow(block) ==
    IF SearchWord(block, L_RISK) # <<>>
    THEN Lower(SearchWord(block, L_RISK))
    ELSE <<"low">>

TaskRisk(block) ==
    IF SearchWord(block, L_RISK) # <<>>
    THEN Lower(SearchWord(block, L_RISK))
    ELSE <<"medium">>

TaskEffort(block) ==
    IF SearchLine(block, L_EFFORT) # <<>>
    THEN Strip(SearchLine(block, L_EFFORT))
    ELSE <<"TBD">>

TaskWhat(block) == Strip(SearchList(block, L_WHAT, FALSE))

TaskWhy(block) == Strip(SearchList(block, L_WHY, FALSE))

TaskCriteria(block) == Strip(SearchList(block, L_CRITERIA, TRUE))

TaskDependencies(block) ==
    IF SearchLine(block, L_DEPS) # <<>>
    THEN Strip(SearchLine(block, L_DEPS))
    ELSE <<"None">>

ParseTask(task_id, block) ==
    [id |-> TASK \o task_id,
     title |-> TaskTitle(block),
     priority |-> TaskPriority(block),
     risk |-> TaskRisk(block),
     effort |-> TaskEffort(block),
     what |-> TaskWhat(block),
     why |-> TaskWhy(block),
     criteria |-> TaskCriteria(block),
     dependencies |-> TaskDependencies(block)]

\* re.finditer: the matches of task_pattern from position p on, each search
\* resuming where the previous match ended; <<group 1, group 2>> of each
RECURSIVE TaskMatches(_, _)
TaskMatches(s, p) ==
    IF p > Len(s) THEN <<>>
    ELSE IF HeadMatchAt(s, p)
         THEN LET g == HeadBlockFrom(s, p)
                  x == BlockEnd(s, g)
              IN  <<<<SubSeq(s, HeadIdFrom(s, p), HeadIdEnd(s, p) - 1),
                      SubSeq(s, g, x - 1)>>>>
                  \o TaskMatches(s, x)
         ELSE TaskMatches(s, p + 1)

parse_refactor_plan(text) ==
    LET m == TaskMatches(text, 1)
    IN  [k \in 1..Len(m) |-> ParseTask(m[k][1], m[k][2])]

(***************************************************************************)
(* Issue synthesis.                                                        *)
(***************************************************************************)
\* variant: a priority outside the table gets 'priority:low'
get_priority_labelDefaultLow(priority) ==
    CASE Lower(priority) \in {<<"urgent">>, <<"high">>} -> "priority:high"
      [] Lower(priority) = <<"medium">> -> "priority:medium"
      [] Lower(priority) = <<"low">> -> "priority:low"
      [] OTHER -> "priority:low"

get_priority_label(priority) ==
    CASE Lower(priority) \in {<<"urgent">>, <<"high">>} -> "priority:high"
      [] Lower(priority) = <<"medium">> -> "priority:medium"
      [] Lower(priority) = <<"low">> -> "priority:low"
      [] OTHER -> "priority:medium"

\* variant: 'high-risk' is decided by the priority instead of the risk
IssueLabelsHighPriority(task) ==
    <<"modernization", get_priority_label(task.priority)>>
        \o (IF Lower(task.priority) = <<"high">> THEN <<"high-risk">> ELSE <<>>)

IssueLabels(task) ==
    <<"modernization", get_priority_label(task.priority)>>
        \o (IF Lower(task.risk) = <<"high">> THEN <<"high-risk">> ELSE <<>>)

\* the f-string of the body; the back quotes around the path of the last
\* line are left out of its symbol
create_issue_body(task) ==
    <<"**Task ID:** ">> \o task.id
        \o <<NL, "**Priority:** ">> \o Upper(task.priority)
        \o <<NL, "**Risk:** ">> \o Upper(task.risk)
        \o <<NL, "**Effort:** ">> \o task.effort
        \o <<NL, NL, "## What", NL, NL>> \o task.what
        \o <<NL, NL, "## Why", NL, NL>> \o task.why
        \o <<NL, NL, "## Acceptance Criteria", NL, NL>> \o task.criteria
        \o <<NL, NL, "## Dependencies", NL, NL>> \o task.dependencies
        \o <<NL, NL, "---", NL, NL,
             "**Part of legacy code modernization workflow.**", NL, NL,
             "See: docs/modernization/refactor-plan.md", NL>>

IssueTitle(task) == <<"[Modernization] ">> \o task.id \o <<":", SP>> \o task.title

\* the arguments of one api.create_issue call, with the position of the task
IssueCall(k, task) ==
    [task |-> k,
     title |-> IssueTitle(task),
     body |-> create_issue_body(task),
     labels |-> IssueLabels(task),
     add_to_project |-> TRUE,
     column_name |-> "Backlog"]

(***************************************************************************)
(* The plan files of the model: up to MaxSegs segments, one after another. *)
(***************************************************************************)
Segments ==
    <<H4 \o <<SP>> \o TASK \o <<"1", ":", SP, "Fix", NL>>,
      H4 \o <<SP>> \o TASK \o <<"2", ":", SP, NL>>,
      H4 \o <<SP>> \o TASK \o <<"3", ":", SP, "Fix", SP, "bug", NL>>,
      <<L_PRIORITY, SP, "High", NL>>,
      <<L_PRIORITY, SP, "critical", NL>>,
      <<L_RISK, SP, "high", NL>>,
      <<L_EFFORT, SP, "2", SP, "days", NL>>,
      <<L_WHAT, NL, "-", SP, "a", NL>>,
      <<L_WHY, NL, "-", SP, "b", NL>>,
      <<L_CRITERIA, NL, "-", SP, "[", SP, "]", SP, "x", NL>>,
      <<L_DEPS, SP, TASK[1], TASK[2], "1", NL>>>>

RECURSIVE Flatten(_)
Flatten(ss) == IF ss = <<>> THEN <<>> ELSE Head(ss) \o Flatten(Tail(ss))

SegmentChoices == UNION {[1..n -> 1..Len(Segments)] : n \in 0..MaxSegs}

PlanDocs == {Flatten([k \in 1..Len(f) |-> Segments[f[k]]]) : f \in SegmentChoices}

(***************************************************************************)
(* The task records of the round trip, and the labeled-field format.       *)
(***************************************************************************)
ItemWord(k) == IF k = 1 THEN "a" ELSE IF k = 2 THEN "b" ELSE "x"

RECURSIVE ItemLines(_, _)
ItemLines(n, checkbox) ==
    IF n = 0 THEN <<>>
    ELSE ItemLines(n - 1, checkbox)
            \o (IF n = 1 THEN <<>> ELSE <<NL>>)
            \o (IF checkbox THEN <<"-", SP, "[", SP, "]", SP>> ELSE <<"-", SP>>)
            \o <<ItemWord(n)>>

TaskRecords ==
    [id : {TASK \o <<"1">>, TASK \o <<"1", "2">>},
     title : {<<"Fix">>, <<"Fix", SP, "bug">>, <<"Fix", SP>>, <<>>},
     priority : {<<"urgent">>, <<"high">>, <<"medium">>, <<"low">>},
     risk : {<<"high">>, <<"medium">>, <<"low">>},
     effort : {<<"TBD">>, <<"2", SP, "days">>, <<>>},
     what : {ItemLines(n, FALSE) : n \in 0..MaxItems},
     why : {ItemLines(n, FALSE) : n \in 0..1},
     criteria : {ItemLines(n, TRUE) : n \in 0..MaxItems},
     dependencies : {<<"None">>, TASK \o <<"1">>, <<>>}]

RenderTask(t) ==
    H4 \o <<SP>> \o t.id \o <<":", SP>> \o t.title \o <<NL>>
        \o <<L_PRIORITY, SP>> \o t.priority \o <<NL>>
        \o <<L_RISK, SP>> \o t.risk \o <<NL>>
        \o <<L_EFFORT, SP>> \o t.effort \o <<NL>>
        \o <<L_WHAT, NL>> \o t.what \o <<NL>>
        \o <<L_WHY, NL>> \o t.why \o <<NL>>
        \o <<L_CRITERIA, NL>> \o t.criteria \o <<NL>>
        \o <<L_DEPS, SP>> \o t.dependencies \o <<NL>>

NoRecord == [id |-> <<>>]

(***************************************************************************)
(* main()                                                                  *)
(***************************************************************************)
\* results as initialised by analyze_codebase
InitialResults ==
    [total_files |-> 0, total_lines |-> 0, languages |-> <<>>,
     large_files |-> <<>>, complex_functions |-> <<>>, todos |-> <<>>,
     test_files |-> 0, framework |-> "Unknown"]

\* a tree without package.json
NoManifest == [state |-> "absent", dependencies |-> {}, devDependencies |-> {}]

\* the empty directory
EmptyRoot ==
    [py_files |-> <<>>, js_files |-> <<>>, manage_py |-> FALSE,
     app_py |-> FALSE, wsgi_py |-> FALSE, package_json |-> NoManifest,
     dirs |-> {}]

\* values of the variables a run does not use
NoAnalysis == [scores |-> <<>>, high_complexity |-> <<>>]

NoInsertion == [at |-> 0, function |-> 0, keyword |-> 0]

LabelIdle ==
    /\ priority_arg = <<>>
    /\ label_ret = "none"

ComplexityIdle ==
    /\ file_text = <<>>
    /\ analysis = NoAnalysis
    /\ prev_analysis = NoAnalysis
    /\ inserted = NoInsertion

AssessIdle ==
    /\ root = EmptyRoot
    /\ scan_pos = 0
    /\ assessment = InitialResults
    /\ visited = <<>>
    /\ now = 0
    /\ reports = <<>>

AuxIdle == LabelIdle /\ ComplexityIdle /\ AssessIdle

IssueIdle ==
    /\ plan_exists = FALSE
    /\ content = <<>>
    /\ tasks = <<>>
    /\ api = "none"
    /\ idx = 0
    /\ created_issues = <<>>
    /\ failed_issues = <<>>
    /\ calls = <<>>
    /\ results = <<>>
    /\ next_number = 1
    /\ exit_code = "none"
    /\ record = NoRecord

Init ==
    /\ pc = "start"
    /\ plan_exists \in BOOLEAN
    /\ content \in PlanDocs
    /\ tasks = <<>>
    /\ api = "none"
    /\ idx = 0
    /\ created_issues = <<>>
    /\ failed_issues = <<>>
    /\ calls = <<>>
    /\ results = <<>>
    /\ next_number = 1
    /\ exit_code = "none"
    /\ record = NoRecord
    /\ AuxIdle

\* if not plan_file.exists(): return 1
PlanMissing ==
    /\ pc = "start"
    /\ ~plan_exists
    /\ pc' = "done"
    /\ exit_code' = 1
    /\ UNCHANGED <<plan_exists, content, tasks, api, idx, created_issues,
                   failed_issues, calls, results, next_number, record>>
    /\ UNCHANGED aux_vars

\* tasks = parse_refactor_plan(plan_file)
ParsePlan ==
    /\ pc = "start"
    /\ plan_exists
    /\ tasks' = parse_refactor_plan(content)
    /\ pc' = "parsed"
    /\ UNCHANGED <<plan_exists, content, api, idx, created_issues,
                   failed_issues, calls, results, next_number, exit_code, record>>
    /\ UNCHANGED aux_vars

\* variant: an empty plan is reported as success
NoTasksReturnsZero ==
    /\ pc = "parsed"
    /\ tasks = <<>>
    /\ pc' = "done"
    /\ exit_code' = 0
    /\ UNCHANGED <<plan_exists, content, tasks, api, idx, created_issues,
                   failed_issues, calls, results, next_number, record>>
    /\ UNCHANGED aux_vars

\* if not tasks: return 1
NoTasks ==
    /\ pc = "parsed"
    /\ tasks = <<>>
    /\ pc' = "done"
    /\ exit_code' = 1
    /\ UNCHANGED <<plan_exists, content, tasks, api, idx, created_issues,
                   failed_issues, calls, results, next_number, record>>
    /\ UNCHANGED aux_vars

\* api = GitHubAPI()
InitApi ==
    /\ pc = "parsed"
    /\ tasks # <<>>
    /\ api' = "ready"
    /\ pc' = "loop"
    /\ UNCHANGED <<plan_exists, content, tasks, idx, created_issues,
                   failed_issues, calls, results, next_number, exit_code, record>>
    /\ UNCHANGED aux_vars

\* except GitHubAPIError: return 1
InitApiFails ==
    /\ pc = "parsed"
    /\ tasks # <<>>
    /\ pc' = "done"
    /\ exit_code' = 1
    /\ UNCHANGED <<plan_exists, content, tasks, api, idx, created_issues,
                   failed_issues, calls, results, next_number, record>>
    /\ UNCHANGED aux_vars

\* variant: the loop walks the task list from its end
CallCreateIssueReversed ==
    /\ pc = "loop"
    /\ idx < Len(tasks)
    /\ idx' = idx + 1
    /\ calls' = Append(calls, IssueCall(Len(tasks) - idx, tasks[Len(tasks) - idx]))
    /\ pc' = "call"
    /\ UNCHANGED <<plan_exists, content, tasks, api, created_issues,
                   failed_issues, results, next_number, exit_code, record>>
    /\ UNCHANGED aux_vars

\* for task in tasks: ... api.create_issue(...)
CallCreateIssue ==
    /\ pc = "loop"
    /\ idx < Len(tasks)
    /\ idx' = idx + 1
    /\ calls' = Append(calls, IssueCall(idx + 1, tasks[idx + 1]))
    /\ pc' = "call"
    /\ UNCHANGED <<plan_exists, content, tasks, api, created_issues,
                   failed_issues, results, next_number, exit_code, record>>
    /\ UNCHANGED aux_vars

\* created_issues.append((task['id'], issue['number']))
CreateIssueReturns ==
    /\ pc = "call"
    /\ created_issues' = Append(created_issues, <<tasks[idx].id, next_number>>)
    /\ results' = Append(results, "created")
    /\ next_number' = next_number + 1
    /\ pc' = "loop"
    /\ UNCHANGED <<plan_exists, content, tasks, api, idx, failed_issues,
                   calls, exit_code, record>>
    /\ UNCHANGED aux_vars

\* variant: the first tracker error ends the batch
CreateIssueFailsStops ==
    /\ pc = "call"
    /\ failed_issues' = Append(failed_issues, tasks[idx].id)
    /\ results' = Append(results, "failed")
    /\ pc' = "done"
    /\ exit_code' = 1
    /\ UNCHANGED <<plan_exists, content, tasks, api, idx, created_issues,
                   calls, next_number, record>>
    /\ UNCHANGED aux_vars

\* variant: a tracker error is printed but not recorded
CreateIssueFailsUnrecorded ==
    /\ pc = "call"
    /\ results' = Append(results, "failed")
    /\ pc' = "loop"
    /\ UNCHANGED <<plan_exists, content, tasks, api, idx, created_issues,
                   failed_issues, calls, next_number, exit_code, record>>
    /\ UNCHANGED aux_vars

\* except GitHubAPIError: failed_issues.append(task['id'])
CreateIssueFails ==
    /\ pc = "call"
    /\ failed_issues' = Append(failed_issues, tasks[idx].id)
    /\ results' = Append(results, "failed")
    /\ pc' = "loop"
    /\ UNCHANGED <<plan_exists, content, tasks, api, idx, created_issues,
                   calls, next_number, exit_code, record>>
    /\ UNCHANGED aux_vars

\* variant: any other exception is handled like a tracker error
CreateIssueRaisesHandled ==
    /\ pc = "call"
    /\ failed_issues' = Append(failed_issues, tasks[idx].id)
    /\ results' = Append(results, "raised")
    /\ pc' = "loop"
    /\ UNCHANGED <<plan_exists, content, tasks, api, idx, created_issues,
                   calls, next_number, exit_code, record>>
    /\ UNCHANGED aux_vars

\* any other exception leaves the loop and main()
CreateIssueRaises ==
    /\ pc = "call"
    /\ results' = Append(results, "raised")
    /\ pc' = "raised"
    /\ UNCHANGED <<plan_exists, content, tasks, api, idx, created_issues,
                   failed_issues, calls, next_number, exit_code, record>>
    /\ UNCHANGED aux_vars

\* variant: the exit code looks at the successes instead of the failures
FinishBySuccesses ==
    /\ pc = "loop"
    /\ idx = Len(tasks)
    /\ exit_code' = (IF created_issues # <<>> THEN 0 ELSE 1)
    /\ pc' = "done"
    /\ UNCHANGED <<plan_exists, content, tasks, api, idx, created_issues,
                   failed_issues, calls, results, next_number, record>>
    /\ UNCHANGED aux_vars

\* return 0 if not failed_issues else 1
Finish ==
    /\ pc = "loop"
    /\ idx = Len(tasks)
    /\ exit_code' = (IF failed_issues = <<>> THEN 0 ELSE 1)
    /\ pc' = "done"
    /\ UNCHANGED <<plan_exists, content, tasks, api, idx, created_issues,
                   failed_issues, calls, results, next_number, record>>
    /\ UNCHANGED aux_vars

Next ==
    \/ PlanMissing
    \/ ParsePlan
    \/ NoTasks
    \/ InitApi
    \/ InitApiFails
    \/ CallCreateIssue
    \/ CreateIssueReturns
    \/ CreateIssueFails
    \/ CreateIssueRaises
    \/ Finish

Spec == Init /\ [][Next]_vars

(***************************************************************************)
(* Round trip: a task record is rendered in the labeled-field format and   *)
(* the text is parsed.                                                     *)
(***************************************************************************)
InitRT ==
    /\ pc = "rt_start"
    /\ plan_exists = TRUE
    /\ content = <<>>
    /\ tasks = <<>>
    /\ api = "none"
    /\ idx = 0
    /\ created_issues = <<>>
    /\ failed_issues = <<>>
    /\ calls = <<>>
    /\ results = <<>>
    /\ next_number = 1
    /\ exit_code = "none"
    /\ record \in TaskRecords
    /\ AuxIdle

RenderRecord ==
    /\ pc = "rt_start"
    /\ content' = RenderTask(record)
    /\ pc' = "rt_rendered"
    /\ UNCHANGED <<plan_exists, tasks, api, idx, created_issues, failed_issues,
                   calls, results, next_number, exit_code, record>>
    /\ UNCHANGED aux_vars

ParseRendered ==
    /\ pc = "rt_rendered"
    /\ tasks' = parse_refactor_plan(content)
    /\ pc' = "rt_parsed"
    /\ UNCHANGED <<plan_exists, content, api, idx, created_issues,
                   failed_issues, calls, results, next_number, exit_code, record>>
    /\ UNCHANGED aux_vars

NextRT == RenderRecord \/ ParseRendered

SpecRT == InitRT /\ [][NextRT]_vars

(***************************************************************************)
(* get_priority_label applied to one priority string.                      *)
(***************************************************************************)
\* every string of words, blanks and '-' up to the bound
PriorityArgs ==
    UNION {[1..n -> Words \cup {SP, "-"}] : n \in 0..MaxPriorityLen}

InitLabel ==
    /\ pc = "label_start"
    /\ priority_arg \in PriorityArgs
    /\ label_ret = "none"
    /\ IssueIdle
    /\ ComplexityIdle
    /\ AssessIdle

ApplyPriorityLabel ==
    /\ pc = "label_start"
    /\ label_ret' = get_priority_label(priority_arg)
    /\ pc' = "label_done"
    /\ UNCHANGED <<priority_arg, issue_vars, complexity_vars, assess_vars>>

NextLabel == ApplyPriorityLabel

SpecLabel == InitLabel /\ [][NextLabel]_vars


(***************************************************************************)
(* scripts/modernize/assess_codebase.py: the report generator.             *)
(* A report is the sequence of its lines; a line is a tuple of its fixed   *)
(* text and the values formatted into it.  The fixed paragraphs of the     *)
(* template are one line each.                                             *)
(***************************************************************************)
\* the names a top-level directory can have, in the order sorted() gives
DirNames == <<".git", "docs", "src", "tests">>

\* item.name.startswith('.')
HiddenName(name) == name = ".git"

\* the format specification ',': the groups of three digits of n
RECURSIVE Commas(_)
Commas(n) == IF n < 1000 THEN <<n>> ELSE Commas(n \div 1000) \o <<n % 1000>>

\* seq[:n]
Take(seq, n) == SubSeq(seq, 1, IF n < Len(seq) THEN n ELSE Len(seq))

\* variant: an entry goes before the entries with an equal key
InsertDescBeforeEqual(sorted, x, k) ==
    LET n == Cardinality({i \in 1..Len(sorted) : sorted[i][k] > x[k]})
    IN  SubSeq(sorted, 1, n) \o <<x>> \o SubSeq(sorted, n + 1, Len(sorted))

\* one entry put into a list in descending order of field k, behind the
\* entries with an equal key
InsertDesc(sorted, x, k) ==
    LET n == Cardinality({i \in 1..Len(sorted) : sorted[i][k] >= x[k]})
    IN  SubSeq(sorted, 1, n) \o <<x>> \o SubSeq(sorted, n + 1, Len(sorted))

\* sorted(list, key=lambda x: x[k], reverse=True): a stable sort
RECURSIVE SortedDesc(_, _)
SortedDesc(list, k) ==
    IF list = <<>> THEN <<>>
    ELSE InsertDesc(SortedDesc(SubSeq(list, 1, Len(list) - 1), k),
                    list[Len(list)], k)

\* sorted(root_dir.iterdir()) filtered by is_dir() and the leading '.'
RECURSIVE DirLinesFrom(_, _)
DirLinesFrom(dirs, k) ==
    IF k > Len(DirNames) THEN <<>>
    ELSE (IF k \in dirs /\ ~HiddenName(DirNames[k])
          THEN << <<"dir", DirNames[k]>> >> ELSE <<>>)
            \o DirLinesFrom(dirs, k + 1)

ReportSummary(res, clock) ==
    << <<"# Legacy Codebase Assessment">>,
       <<"Generated: ", clock>>,
       <<"## Executive Summary">>,
       <<"- **Total Files**: ", res.total_files>>,
       <<"- **Total Lines**: ", Commas(res.total_lines)>>,
       <<"- **Languages**: ", res.languages>>,
       <<"- **Framework**: ", res.framework>>,
       <<"- **Test Files**: ", res.test_files>>,
       <<"- **Large Files (>500 lines)**: ", Len(res.large_files)>>,
       <<"- **Complex Functions (complexity >10)**: ", Len(res.complex_functions)>>,
       <<"- **TODO/FIXME Comments**: ", Len(res.todos)>>,
       <<"## Functionality Inventory">>,
       <<"### Entry Points">> >>

ReportEntryPoints(res) ==
    CASE res.framework = "Django" -> << <<"*Django project:*">> >>
      [] res.framework = "Flask" -> << <<"*Flask project:*">> >>
      [] res.framework = "React" -> << <<"*React project:*">> >>
      [] OTHER -> <<>>

ReportStructure(root_dir) ==
    << <<"## Architecture">>, <<"### Current Structure">> >>
        \o DirLinesFrom(root_dir.dirs, 1)
        \o << <<"### Issues">> >>

ReportLargeFiles(res) ==
    IF res.large_files = <<>> THEN <<>>
    ELSE LET top == Take(SortedDesc(res.large_files, 2), TopN)
         IN  << <<"**Large Files (>500 lines):**">> >>
               \o [i \in 1..Len(top) |->
                     <<"large_file", top[i][1], Commas(top[i][2])>>]

ReportComplexFunctions(res) ==
    IF res.complex_functions = <<>> THEN <<>>
    ELSE LET top == Take(SortedDesc(res.complex_functions, 3), TopN)
         IN  << <<"**Complex Functions (>10 decision points):**">> >>
               \o [i \in 1..Len(top) |->
                     <<"complex_function", top[i][1], top[i][2], top[i][3]>>]

ReportTestCoverage(res) ==
    << <<"### Dependencies">>, <<"## Test Coverage">> >>
        \o (CASE res.test_files = 0 -> << <<"- **No test files found**">> >>
              [] res.test_files > 0 /\ res.test_files < 10 ->
                    << <<"- **Only ", res.test_files, " test files found**">> >>
              [] OTHER -> << <<"- ", res.test_files, " test files found">> >>)
        \o << <<"### Gaps">>, <<"## Code Quality">>, <<"### Complexity">> >>
        \o (IF res.complex_functions # <<>>
            THEN << <<"- Found ", Len(res.complex_functions),
                      " functions with high complexity">> >>
            ELSE << <<"- No obviously complex functions detected">> >>)
        \o << <<"### Technical Debt">> >>

ReportTodos(res) ==
    IF res.todos = <<>> THEN << <<"- No TODO/FIXME comments found">> >>
    ELSE << <<"**TODO/FIXME Comments: ", Len(res.todos), "**">> >>
           \o (IF Len(res.todos) <= TodoShowAll
               THEN [i \in 1..Len(Take(res.todos, TodoShowAll)) |->
                        <<"todo", res.todos[i]>>]
               ELSE [i \in 1..Len(Take(res.todos, TopN)) |->
                        <<"todo", res.todos[i]>>]
                      \o << <<"... and ", Len(res.todos) - TopN, " more">> >>)
           \o << <<"**Action**: Convert TODOs to GitHub Issues">> >>

ReportRisk(res) ==
    LET high_risk ==
            (IF res.test_files = 0 THEN << <<"**No tests**">> >> ELSE <<>>)
              \o (IF res.complex_functions # <<>>
                  THEN << <<"**", Len(res.complex_functions),
                            " complex functions**">> >>
                  ELSE <<>>)
              \o (IF res.large_files # <<>>
                  THEN << <<"**", Len(res.large_files), " large files**">> >>
                  ELSE <<>>)
    IN  << <<"### Linting">>, <<"## Risk Assessment">> >>
          \o (IF high_risk # <<>> THEN high_risk
              ELSE << <<"- No obvious high-risk areas detected">> >>)
          \o << <<"### Mitigation Strategy">> >>

ReportPlan(res, heading) ==
    << <<heading>> >>
        \o (IF res.large_files # <<>>
            THEN << <<"1. Split large files">> >> ELSE <<>>)
        \o (IF res.complex_functions # <<>>
            THEN << <<"2. Refactor complex functions">> >> ELSE <<>>)
        \o << <<"3. Extract service layer">> >>

generate_assessment_report(root_dir, res, clock) ==
    ReportSummary(res, clock)
        \o ReportEntryPoints(res)
        \o ReportStructure(root_dir)
        \o ReportLargeFiles(res)
        \o ReportComplexFunctions(res)
        \o ReportTestCoverage(res)
        \o ReportTodos(res)
        \o ReportRisk(res)
        \o ReportPlan(res, "## Refactor Opportunities")
        \o ReportPlan(res, "## Recommended Approach")
        \o << <<"## Next Steps">>, <<"## Success Criteria">> >>

(***************************************************************************)
(* The results dictionaries and directory trees the generator is applied   *)
(* to.  The generator accepts any results dictionary; it reads root_dir    *)
(* only for the names of its top-level directories.                        *)
(***************************************************************************)
PathOf(k) == <<"pkg/m", k, ".py">>

\* short lists with every arrangement of the metric, and long lists
LargeLists ==
    {[i \in 1..Len(f) |-> <<PathOf(i), f[i]>>] :
        f \in UNION {[1..n -> {501, 520, 900}] : n \in 0..MaxList}}
      \cup {[i \in 1..n |-> <<PathOf(i), 600 + 300 * (i % 3) + 1000 * (i % 2)>>] :
              n \in (TopN + 1)..(TopN + MaxOver)}

ComplexLists ==
    {[i \in 1..Len(f) |-> <<PathOf(1), <<"func", i>>, f[i]>>] :
        f \in UNION {[1..n -> {11, 15, 20}] : n \in 0..MaxList}}
      \cup {[i \in 1..n |-> <<PathOf(1 + (i % 2)), <<"func", i>>, 11 + (i % 4)>>] :
              n \in (TopN + 1)..(TopN + MaxOver)}

TodoLists ==
    {[i \in 1..n |-> <<"m.py", i, "# TODO">>] :
        n \in {0, 1, TopN, TopN + 1, TodoShowAll}
                 \cup ((TodoShowAll + 1)..(TodoShowAll + MaxOver))}

\* <<framework, test_files>>
Profiles ==
    {<<"Unknown", 0>>, <<"Django", 3>>, <<"Flask", 12>>, <<"React", 3>>,
     <<"Express", 0>>}

RECURSIVE SumLines(_)
SumLines(list) ==
    IF list = <<>> THEN 0 ELSE list[1][2] + SumLines(Tail(list))

\* the results of a tree with the listed large files and one more file of
\* 400 lines
AssessmentOf(large, complex, todos, profile) ==
    [total_files |-> Len(large) + 1,
     total_lines |-> SumLines(large) + 400,
     languages |-> << <<"Python", Len(large) + 1>> >>,
     large_files |-> large,
     complex_functions |-> complex,
     todos |-> todos,
     test_files |-> profile[2],
     framework |-> profile[1]]

Assessments ==
    {AssessmentOf(l, <<>>, <<>>, p) : l \in LargeLists, p \in Profiles}
      \cup {AssessmentOf(<<>>, c, <<>>, p) : c \in ComplexLists, p \in Profiles}
      \cup {AssessmentOf(<<>>, <<>>, t, p) : t \in TodoLists, p \in Profiles}

\* sets of positions of DirNames
DirSets == {{}, {3}, {2, 3}, {1, 3, 4}}

InitRender ==
    /\ pc = "render"
    /\ root \in {[EmptyRoot EXCEPT !.dirs = d] : d \in DirSets}
    /\ scan_pos = 0
    /\ assessment \in Assessments
    /\ visited = <<>>
    /\ now = 0
    /\ reports = <<>>
    /\ IssueIdle
    /\ LabelIdle
    /\ ComplexityIdle

\* report = generate_assessment_report(root_dir, results)
GenerateReport ==
    /\ pc = "render"
    /\ Len(reports) < MaxReports
    /\ reports' = Append(reports, generate_assessment_report(root, assessment, now))
    /\ UNCHANGED <<pc, root, scan_pos, assessment, visited, now>>
    /\ UNCHANGED <<issue_vars, label_vars, complexity_vars>>

\* output_dir.mkdir(parents=True, exist_ok=True) and the write of the report
\* under root_dir / 'docs'
SaveReport ==
    /\ pc = "render"
    /\ reports # <<>>
    /\ root' = [root EXCEPT !.dirs = @ \cup {2}]
    /\ UNCHANGED <<pc, scan_pos, assessment, visited, now, reports>>
    /\ UNCHANGED <<issue_vars, label_vars, complexity_vars>>

\* the clock goes on
Tick ==
    /\ pc = "render"
    /\ now < MaxClock
    /\ now' = now + 1
    /\ UNCHANGED <<pc, root, scan_pos, assessment, visited, reports>>
    /\ UNCHANGED <<issue_vars, label_vars, complexity_vars>>

NextRender == GenerateReport \/ SaveReport \/ Tick

SpecRender == InitRender /\ [][NextRender]_vars


(***************************************************************************)
(* scripts/modernize/assess_codebase.py: detect_complexity.  The content   *)
(* of a Python file is the sequence of its characters.                     *)
(***************************************************************************)
Letters ==
    {"a", "b", "c", "d", "e", "f", "g", "h", "i", "j", "k", "l", "m", "n",
     "o", "p", "q", "r", "s", "t", "u", "v", "w", "x", "y", "z", "E"}

\* \w on a character
IsWordChar(c) == c \in Letters \cup Digits \cup {"_"}

NameRunEnd(s, p) ==
    Min({q \in p..(Len(s) + 1) : q = Len(s) + 1 \/ ~IsWordChar(s[q])})

DefWord == <<"d", "e", "f">>

\* keywords = ['if', 'for', 'while', 'and', 'or', 'elif', 'except']
Keywords ==
    <<<<"i", "f">>,
       <<"f", "o", "r">>,
       <<"w", "h", "i", "l", "e">>,
       <<"a", "n", "d">>,
       <<"o", "r">>,
       <<"e", "l", "i", "f">>,
       <<"e", "x", "c", "e", "p", "t">>>>

\* func_pattern 'def\s+(\w+)\s*\(' tried at position p: the name starts
\* behind the whitespace, the parenthesis follows the name and optional
\* whitespace
FuncNameFrom(s, p) == SpaceRunEnd(s, p + 3)
FuncNameEnd(s, p) == NameRunEnd(s, FuncNameFrom(s, p))
FuncParen(s, p) == SpaceRunEnd(s, FuncNameEnd(s, p))

FuncMatchAt(s, p) ==
    /\ HasAt(s, p, DefWord)
    /\ FuncNameFrom(s, p) > p + 3
    /\ FuncNameEnd(s, p) > FuncNameFrom(s, p)
    /\ HasAt(s, FuncParen(s, p), <<"(">>)

\* re.finditer(func_pattern, content): the matches from position p on, left
\* to right and not overlapping, as <<start, name>>
RECURSIVE FuncMatches(_, _)
FuncMatches(s, p) ==
    IF p > Len(s) THEN <<>>
    ELSE IF FuncMatchAt(s, p)
         THEN << <<p, SubSeq(s, FuncNameFrom(s, p), FuncNameEnd(s, p) - 1)>> >>
                \o FuncMatches(s, FuncParen(s, p) + 1)
         ELSE FuncMatches(s, p + 1)

\* str.count(sub): occurrences of sub from position p on, left to right and
\* not overlapping
RECURSIVE StrCount(_, _, _)
StrCount(s, sub, p) ==
    IF p + Len(sub) - 1 > Len(s) THEN 0
    ELSE IF HasAt(s, p, sub) THEN 1 + StrCount(s, sub, p + Len(sub))
         ELSE StrCount(s, sub, p + 1)

\* s.split(sep, 1)[0]: the part of s before the first occurrence of sep,
\* all of s if there is none
SplitFirst(s, sep) ==
    LET at == {p \in 1..Len(s) : HasAt(s, p, sep)}
    IN  IF at = {} THEN s ELSE SubSeq(s, 1, Min(at) - 1)

\* content[func.start() :].split('def', 1)[0]
BodyWindow(s, start) == SplitFirst(SubSeq(s, start, Len(s)), DefWord)

RECURSIVE SumCounts(_, _)
SumCounts(window, k) ==
    IF k > Len(Keywords) THEN 0
    ELSE StrCount(window, Keywords[k], 1) + SumCounts(window, k + 1)

\* the score of the function matched at start
Complexity(s, start) == SumCounts(BodyWindow(s, start), 1)

\* the score of every function of the content, in the order of the matches
FunctionScores(s) ==
    LET ms == FuncMatches(s, 1)
    IN  [k \in 1..Len(ms) |->
            [start |-> ms[k][1], name |-> ms[k][2],
             complexity |-> Complexity(s, ms[k][1])]]

\* detect_complexity on a file with the given content: <<name, score>> of
\* the functions with a score above the threshold; a file that cannot be
\* read gives the empty list
detect_complexity(readable, s) ==
    IF ~readable THEN <<>>
    ELSE LET fs == FunctionScores(s)
             high == SelectSeq(fs, LAMBDA f : f.complexity > ComplexityThreshold)
         IN  [k \in 1..Len(high) |-> <<high[k].name, high[k].complexity>>]

Analyze(s) ==
    [scores |-> FunctionScores(s), high_complexity |-> detect_complexity(TRUE, s)]

\* the pieces the file contents of the model are made of
CodeSegs ==
    <<
       \* def f(x):\n
       <<"d", "e", "f", SP, "f", "(", "x", ")", ":", NL>>,
       \* def g (y):\n
       <<"d", "e", "f", SP, "g", SP, "(", "y", ")", ":", NL>>,
       \*  if x:\n
       <<SP, "i", "f", SP, "x", ":", NL>>,
       \*  for i in x:\n
       <<SP, "f", "o", "r", SP, "i", SP, "i", "n", SP, "x", ":", NL>>,
       \*  elif y or x:\n
       <<SP, "e", "l", "i", "f", SP, "y", SP, "o", "r", SP, "x", ":",
         NL>>,
       \*  while x and y:\n
       <<SP, "w", "h", "i", "l", "e", SP, "x", SP, "a", "n", "d", SP,
         "y", ":", NL>>,
       \* undefined = 1\n
       <<"u", "n", "d", "e", "f", "i", "n", "e", "d", SP, "=", SP,
         "1", NL>>
    >>

CodeTexts ==
    {Flatten([k \in 1..Len(f) |-> CodeSegs[f[k]]]) :
        f \in UNION {[1..n -> 1..Len(CodeSegs)] : n \in 0..MaxCodeSegs}}

\* s with the characters ins put in before position p
InsertAt(s, p, ins) == SubSeq(s, 1, p - 1) \o ins \o SubSeq(s, p, Len(s))

\* the positions an edit of the body of the function matched at start can
\* insert at: the starts of the lines behind the match and before the next
\* 'def', and the end of the last of them
InsertionPoints(s, start) ==
    {p \in (start + 1)..(Len(s) + 1) :
        /\ s[p - 1] = NL
        /\ \A q \in (start + 1)..(p - 1) : ~HasAt(s, q, DefWord)}

InitComplexity ==
    /\ pc = "cx_start"
    /\ file_text \in CodeTexts
    /\ analysis = NoAnalysis
    /\ prev_analysis = NoAnalysis
    /\ inserted = NoInsertion
    /\ IssueIdle
    /\ LabelIdle
    /\ AssessIdle

\* detect_complexity(file_path)
AnalyzeFile ==
    /\ pc = "cx_start"
    /\ analysis' = Analyze(file_text)
    /\ pc' = "cx_analyzed"
    /\ UNCHANGED <<file_text, prev_analysis, inserted>>
    /\ UNCHANGED <<issue_vars, label_vars, assess_vars>>

\* the file is edited: one keyword, with a blank on either side, is put in
\* at the start of a line of the body of one function
InsertKeyword ==
    /\ pc = "cx_analyzed"
    /\ \E k \in 1..Len(analysis.scores), w \in 1..Len(Keywords) :
         \E p \in InsertionPoints(file_text, analysis.scores[k].start) :
            /\ file_text' = InsertAt(file_text, p, <<SP>> \o Keywords[w] \o <<SP>>)
            /\ inserted' = [at |-> p, function |-> k, keyword |-> w]
    /\ prev_analysis' = analysis
    /\ pc' = "cx_inserted"
    /\ UNCHANGED analysis
    /\ UNCHANGED <<issue_vars, label_vars, assess_vars>>

\* detect_complexity(file_path) on the edited file
AnalyzeAgain ==
    /\ pc = "cx_inserted"
    /\ analysis' = Analyze(file_text)
    /\ pc' = "cx_done"
    /\ UNCHANGED <<file_text, prev_analysis, inserted>>
    /\ UNCHANGED <<issue_vars, label_vars, assess_vars>>

NextComplexity == AnalyzeFile \/ InsertKeyword \/ AnalyzeAgain

SpecComplexity == InitComplexity /\ [][NextComplexity]_vars


(***************************************************************************)
(* scripts/modernize/assess_codebase.py: the per-file metrics and          *)
(* analyze_codebase.  A file is its path, whether it can be opened and     *)
(* decoded, and its content: the characters of text followed by padding    *)
(* empty lines.  The tree holds the files the two find functions return,   *)
(* in the order they return them.                                          *)
(***************************************************************************)
\* the lines of a text as iterating over the open file gives them
RECURSIVE TextLines(_)
TextLines(s) ==
    IF s = <<>> THEN <<>>
    ELSE LET e == LineEnd(s, 1)
         IN  <<SubSeq(s, 1, IF e > Len(s) THEN Len(s) ELSE e)>>
               \o TextLines(SubSeq(s, e + 1, Len(s)))

\* sum(1 for _ in f) on the content of the file
LineCount(file) ==
    LET n == Len(TextLines(file.text))
    IN  IF file.padding > 0 /\ file.text # <<>> /\ file.text[Len(file.text)] # NL
        THEN n + file.padding - 1
        ELSE n + file.padding

\* variant: the count of a file that cannot be read is not replaced by 0
count_linesOfAnyFile(file) == LineCount(file)

\* count_lines: 0 when open() or the decoding raises
count_lines(file) == IF file.readable THEN LineCount(file) ELSE 0

\* file_path.name
FileName(path) == <<"m", path[2], path[3]>>

\* 'TODO' in line or 'FIXME' in line
IsTodoLine(line) ==
    \E p \in 1..Len(line) :
        \/ HasAt(line, p, <<"T", "O", "D", "O">>)
        \/ HasAt(line, p, <<"F", "I", "X", "M", "E">>)

\* find_todos: one entry <<name, line number, stripped line>> per line with
\* a marker; the empty list for a file that cannot be read
find_todos(file) ==
    IF ~file.readable THEN <<>>
    ELSE LET ls == TextLines(file.text)
             hits == SelectSeq([k \in 1..Len(ls) |-> <<k, ls[k]>>],
                               LAMBDA e : IsTodoLine(e[2]))
         IN  [k \in 1..Len(hits) |->
                 <<FileName(file.path), hits[k][1], Strip(hits[k][2])>>]

\* variant: a file with exactly the threshold number of lines is large
ScanPythonLargeAtThreshold(res, file) ==
    LET lines == count_lines(file)
        complex_funcs == detect_complexity(file.readable, file.text)
    IN  [res EXCEPT
            !.total_lines = @ + lines,
            !.large_files =
                IF lines >= LargeThreshold THEN Append(@, <<file.path, lines>>)
                ELSE @,
            !.complex_functions =
                @ \o [k \in 1..Len(complex_funcs) |->
                        <<file.path, complex_funcs[k][1], complex_funcs[k][2]>>],
            !.todos = @ \o find_todos(file)]

\* the body of the loop over python_files for one file
ScanPython(res, file) ==
    LET lines == count_lines(file)
        complex_funcs == detect_complexity(file.readable, file.text)
    IN  [res EXCEPT
            !.total_lines = @ + lines,
            !.large_files =
                IF lines > LargeThreshold THEN Append(@, <<file.path, lines>>)
                ELSE @,
            !.complex_functions =
                @ \o [k \in 1..Len(complex_funcs) |->
                        <<file.path, complex_funcs[k][1], complex_funcs[k][2]>>],
            !.todos = @ \o find_todos(file)]

\* the body of the loop over js_files for one file
ScanJs(res, file) ==
    LET lines == count_lines(file)
    IN  [res EXCEPT
            !.total_lines = @ + lines,
            !.large_files =
                IF lines > LargeThreshold THEN Append(@, <<file.path, lines>>)
                ELSE @,
            !.todos = @ \o find_todos(file)]

\* variant: the manifest is looked at before the marker files
DetectedFrameworkManifestFirst(r) ==
    LET deps == r.package_json.dependencies \cup r.package_json.devDependencies
    IN  IF r.package_json.state = "ok" /\ "react" \in deps THEN "React"
        ELSE IF r.package_json.state = "ok" /\ "express" \in deps THEN "Express"
        ELSE IF r.manage_py THEN "Django"
        ELSE IF r.app_py \/ r.wsgi_py THEN "Flask"
        ELSE "Unknown"

\* the framework rules in the order of the if/elif chain
DetectedFramework(r) ==
    IF r.manage_py THEN "Django"
    ELSE IF r.app_py \/ r.wsgi_py THEN "Flask"
    ELSE IF r.package_json.state = "absent" THEN "Unknown"
    ELSE IF r.package_json.state = "malformed" THEN "Unknown"
    ELSE LET deps == r.package_json.dependencies
                        \cup r.package_json.devDependencies
         IN  IF "react" \in deps THEN "React"
             ELSE IF "express" \in deps THEN "Express"
             ELSE "Unknown"

\* the number of files of the tree with the name of a test
TestFileCount(r) ==
    Cardinality({k \in 1..Len(r.py_files) : r.py_files[k].test_name})
        + Cardinality({k \in 1..Len(r.js_files) : r.js_files[k].test_name})

(***************************************************************************)
(* The trees of the model.                                                 *)
(***************************************************************************)
\* what a Python file can be: <<readable, text, padding, test_name>>
PyKinds ==
    {<<TRUE, <<"x", SP, "=", SP, "1", NL>>, 0, FALSE>>,
     <<TRUE, <<"x", SP, "=", SP, "1", NL>>, 0, TRUE>>,
     <<TRUE, <<"#", SP, "T", "O", "D", "O", SP, "f", "i", "x", NL>>, 499, FALSE>>,
     <<TRUE, <<"#", SP, "T", "O", "D", "O", SP, "f", "i", "x", NL>>, 500, FALSE>>,
     <<FALSE, <<"x", SP, "=", SP, "1", NL>>, 600, FALSE>>,
     <<TRUE, <<"d", "e", "f", SP, "f", "(", "x", ")", ":", NL, SP, "i", "f", SP, "x", ":", NL>>, 0, FALSE>>}

JsKinds ==
    {<<TRUE, <<"/", "/", SP, "F", "I", "X", "M", "E", SP, "x", NL>>, 500, FALSE>>,
     <<FALSE, <<"x", NL>>, 0, TRUE>>}

FileOf(kind, path) ==
    [path |-> path, readable |-> kind[1], text |-> kind[2],
     padding |-> kind[3], test_name |-> kind[4]]

JsPathOf(k) == <<"web/m", k, ".js">>

PyFileLists ==
    {[k \in 1..Len(f) |-> FileOf(f[k], PathOf(k))] :
        f \in UNION {[1..n -> PyKinds] : n \in 0..MaxFiles}}

JsFileLists ==
    {[k \in 1..Len(f) |-> FileOf(f[k], JsPathOf(k))] :
        f \in UNION {[1..n -> JsKinds] : n \in 0..(MaxFiles - 1)}}

Manifests ==
    {NoManifest,
     [state |-> "malformed", dependencies |-> {}, devDependencies |-> {}]}
      \cup [state : {"ok"}, dependencies : SUBSET {"react", "express"},
            devDependencies : SUBSET {"react", "express"}]

\* every list of files in a tree without markers, and every combination of
\* markers in a tree of one file
Roots ==
    {[EmptyRoot EXCEPT !.py_files = p, !.js_files = j] :
        p \in PyFileLists, j \in JsFileLists}
      \cup {[EmptyRoot EXCEPT !.py_files = <<FileOf(<<TRUE, <<"x", SP, "=", SP, "1", NL>>, 0, FALSE>>, PathOf(1))>>,
                              !.manage_py = a, !.app_py = b, !.wsgi_py = c,
                              !.package_json = m] :
              a \in BOOLEAN, b \in BOOLEAN, c \in BOOLEAN, m \in Manifests}

InitScan ==
    /\ pc = "scan_start"
    /\ root \in Roots
    /\ scan_pos = 0
    /\ assessment = InitialResults
    /\ visited = <<>>
    /\ now = 0
    /\ reports = <<>>
    /\ IssueIdle
    /\ LabelIdle
    /\ ComplexityIdle

\* the histogram entry and the file total of one language, added when the
\* find function returned files
WithLanguage(res, language, files) ==
    IF files = <<>> THEN res
    ELSE [res EXCEPT !.languages = Append(@, <<language, Len(files)>>),
                     !.total_files = @ + Len(files)]

\* python_files = find_python_files(root_dir) and the lines before the loop
FindPythonFiles ==
    /\ pc = "scan_start"
    /\ assessment' = WithLanguage(assessment, "Python", root.py_files)
    /\ scan_pos' = 0
    /\ pc' = "scan_py"
    /\ UNCHANGED <<root, visited, now, reports>>
    /\ UNCHANGED <<issue_vars, label_vars, complexity_vars>>

\* one turn of the loop over python_files
ScanPythonFile ==
    /\ pc = "scan_py"
    /\ scan_pos < Len(root.py_files)
    /\ assessment' = ScanPython(assessment, root.py_files[scan_pos + 1])
    /\ visited' = Append(visited, root.py_files[scan_pos + 1].path)
    /\ scan_pos' = scan_pos + 1
    /\ UNCHANGED <<pc, root, now, reports>>
    /\ UNCHANGED <<issue_vars, label_vars, complexity_vars>>

\* js_files = find_js_ts_files(root_dir) and the lines before the loop
FindJsFiles ==
    /\ pc = "scan_py"
    /\ scan_pos = Len(root.py_files)
    /\ assessment' = WithLanguage(assessment, "JavaScript/TypeScript", root.js_files)
    /\ scan_pos' = 0
    /\ pc' = "scan_js"
    /\ UNCHANGED <<root, visited, now, reports>>
    /\ UNCHANGED <<issue_vars, label_vars, complexity_vars>>

\* one turn of the loop over js_files
ScanJsFile ==
    /\ pc = "scan_js"
    /\ scan_pos < Len(root.js_files)
    /\ assessment' = ScanJs(assessment, root.js_files[scan_pos + 1])
    /\ visited' = Append(visited, root.js_files[scan_pos + 1].path)
    /\ scan_pos' = scan_pos + 1
    /\ UNCHANGED <<pc, root, now, reports>>
    /\ UNCHANGED <<issue_vars, label_vars, complexity_vars>>

\* the framework rules, the count of the test files and the return
FinishAnalysis ==
    /\ pc = "scan_js"
    /\ scan_pos = Len(root.js_files)
    /\ assessment' = [assessment EXCEPT !.framework = DetectedFramework(root),
                                        !.test_files = @ + TestFileCount(root)]
    /\ pc' = "scan_done"
    /\ UNCHANGED <<root, scan_pos, visited, now, reports>>
    /\ UNCHANGED <<issue_vars, label_vars, complexity_vars>>

NextScan ==
    \/ FindPythonFiles
    \/ ScanPythonFile
    \/ FindJsFiles
    \/ ScanJsFile
    \/ FinishAnalysis

SpecScan == InitScan /\ [][NextScan]_vars


(***************************************************************************)
(* parse_refactor_plan on plans whose blocks hold headings that are not    *)
(* task headings, labels that occur twice and labels without a value.      *)
(***************************************************************************)
BlockSegments ==
    <<H4 \o <<SP>> \o TASK \o <<"1", ":", SP, "Fix", NL>>,
      H4 \o <<SP>> \o TASK \o <<"3", ":", SP, "Fix", SP, "bug", NL>>,
      H4 \o <<SP, "Notes", NL>>,
      <<L_PRIORITY, SP, "High", NL>>,
      <<L_PRIORITY, SP, "low", NL>>,
      <<L_RISK, SP, "high", NL>>,
      <<L_RISK, SP, "low", NL>>,
      <<L_EFFORT, SP, "2", SP, "days", NL>>,
      <<L_EFFORT, SP, "TBD", NL>>,
      <<L_DEPS, SP, TASK[1], TASK[2], "1", NL>>,
      <<L_DEPS, SP, "None", NL>>,
      <<L_PRIORITY, NL>>,
      <<L_EFFORT, SP, NL>>>>

BlockDocs ==
    {Flatten([k \in 1..Len(f) |-> BlockSegments[f[k]]]) :
        f \in UNION {[1..n -> 1..Len(BlockSegments)] : n \in 0..MaxSegs}}

InitBlocks ==
    /\ pc = "start"
    /\ plan_exists = TRUE
    /\ content \in BlockDocs
    /\ tasks = <<>>
    /\ api = "none"
    /\ idx = 0
    /\ created_issues = <<>>
    /\ failed_issues = <<>>
    /\ calls = <<>>
    /\ results = <<>>
    /\ next_number = 1
    /\ exit_code = "none"
    /\ record = NoRecord
    /\ AuxIdle

NextBlocks == ParsePlan

SpecBlocks == InitBlocks /\ [][NextBlocks]_vars


(***************************************************************************)
(* Definitions used by the properties.                                     *)
(***************************************************************************)
Range(q) == {q[k] : k \in 1..Len(q)}

\* the batch has started: the plan exists, tasks were parsed, the client exists
BatchStarted == api = "ready"

\* the plan file has been parsed
Parsed == pc \in {"parsed", "loop", "call", "done", "raised"} /\ plan_exists

\* the positions of the finished attempts whose outcome is r, in order
PositionsWith(r) ==
    SelectSeq([j \in 1..Len(results) |-> j], LAMBDA j : results[j] = r)

\* the ids of the tasks whose attempt ended with outcome r, in order
IdsWith(r) == [k \in 1..Len(PositionsWith(r)) |-> tasks[PositionsWith(r)[k]].id]

IsPrefix(a, b) == Len(a) <= Len(b) /\ SubSeq(b, 1, Len(a)) = a

\* a line of the text that is a task heading: "#### TASK-<digits>:" at the
\* start of a line, followed by a space and the rest of the line, or by
\* the end of the line
TaskHeadingAt(s, p) ==
    /\ p = 1 \/ s[p - 1] = NL
    /\ HasAt(s, p, H4 \o <<SP>> \o TASK)
    /\ DigitRunEnd(s, p + 7) > p + 7
    /\ HasAt(s, DigitRunEnd(s, p + 7), <<":">>)
    /\ \/ DigitRunEnd(s, p + 7) = Len(s)
       \/ s[DigitRunEnd(s, p + 7) + 1] \in {SP, NL}

HeadingIds(s) ==
    LET at == SelectSeq([p \in 1..Len(s) |-> p], LAMBDA p : TaskHeadingAt(s, p))
    IN  [k \in 1..Len(at) |->
            TASK \o SubSeq(s, at[k] + 7, DigitRunEnd(s, at[k] + 7) - 1)]

\* group 2 of the k-th match of task_pattern
BlockOf(k) == TaskMatches(content, 1)[k][2]

\* symbol c occurs exactly once in text b, and lit is what occurs there
OnlyAs(b, c, lit) ==
    /\ Cardinality({p \in 1..Len(b) : b[p] = c}) = 1
    /\ \E p \in 1..Len(b) : HasAt(b, p, lit)

FieldLabels ==
    {L_PRIORITY, L_RISK, L_EFFORT, L_WHAT, L_WHY, L_CRITERIA, L_DEPS}

\* a value that fills the rest of a label line: not empty, no whitespace
\* around it, one line, no "#" and no field label in it
WellFormedLine(x) ==
    /\ x # <<>>
    /\ Strip(x) = x
    /\ \A k \in 1..Len(x) : x[k] \notin {NL, "#"} \cup FieldLabels

(***************************************************************************)
(* Properties.                                                             *)
(***************************************************************************)

\* C1: whatever the pattern of tracker errors (GitHubAPIError), every task
\* record gets exactly one publish attempt: no record is attempted twice, a
\* failed creation leaves the next attempt enabled, and a run that ends
\* after the batch has attempted every record.
C1_OneAttemptEach ==
    /\ \A k \in 1..Len(tasks) :
          Cardinality({j \in 1..Len(calls) : calls[j].task = k}) <= 1
    /\ \A j \in 1..Len(calls) : calls[j].task \in 1..Len(tasks)
    /\ (pc = "loop" /\ idx < Len(tasks) /\ results # <<>>
            /\ results[Len(results)] = "failed")
          => ENABLED CallCreateIssue
    /\ (pc = "done" /\ BatchStarted)
          => \A k \in 1..Len(tasks) :
                Cardinality({j \in 1..Len(calls) : calls[j].task = k}) = 1

C1_Witness ==
    /\ pc = "done"
    /\ Len(tasks) = 3
    /\ results = <<"failed", "failed", "created">>
    /\ Len(calls) = 3

\* C2: once the batch has started, main() returns 1 exactly when some
\* publish attempt failed and 0 otherwise; with 3 tasks of which only the
\* second fails, the first and third are created, the second is failed and
\* the exit code is 1.
C2_ExitCode ==
    (pc = "done" /\ BatchStarted)
        => /\ exit_code \in {0, 1}
           /\ exit_code = 1 <=> "failed" \in Range(results)
           /\ (Len(tasks) = 3 /\ results = <<"created", "failed", "created">>)
                => /\ created_issues = <<<<tasks[1].id, 1>>, <<tasks[3].id, 2>>>>
                   /\ failed_issues = <<tasks[2].id>>
                   /\ exit_code = 1

C2_Witness ==
    /\ pc = "done"
    /\ Len(tasks) = 3
    /\ results = <<"created", "failed", "created">>
    /\ exit_code = 1

\* C3: publish attempts are made in the order the tasks were parsed: the
\* j-th create_issue call is the one for the j-th parsed record, and it is
\* made only when every earlier call has returned or failed (at most one
\* call is open, and only while main() is inside create_issue).
C3_AttemptsInOrder ==
    /\ \A j \in 1..Len(calls) :
          /\ calls[j].task = j
          /\ calls[j].title = IssueTitle(tasks[j])
    /\ Len(results) <= Len(calls)
    /\ Len(calls) <= Len(results) + 1
    /\ Len(calls) = Len(results) + 1 <=> pc = "call"

C3_Witness ==
    /\ pc = "call"
    /\ Len(calls) = 3
    /\ Len(results) = 2
    /\ tasks[1].id # tasks[3].id

\* C4: at every point the created list and the failed list partition the
\* records attempted so far: the created list holds, in order, the
\* <<task id, issue number>> of the attempts that succeeded, the failed list
\* the task ids of those that failed; at the end of the batch their lengths
\* add up to the number of parsed records; and no step removes or alters an
\* entry of either list.
C4_PartitionNow ==
    /\ [k \in 1..Len(created_issues) |-> created_issues[k][1]] = IdsWith("created")
    /\ \A k \in 1..Len(created_issues) : created_issues[k][2] = k
    /\ failed_issues = IdsWith("failed")
    /\ Len(created_issues) + Len(failed_issues)
          = Cardinality({j \in 1..Len(results) : results[j] # "raised"})
    /\ (pc = "done" /\ BatchStarted)
          => Len(created_issues) + Len(failed_issues) = Len(tasks)

C4_Partition ==
    /\ []C4_PartitionNow
    /\ [][/\ IsPrefix(created_issues, created_issues')
          /\ IsPrefix(failed_issues, failed_issues')]_vars

C4_Witness ==
    /\ pc = "done"
    /\ Len(created_issues) = 1
    /\ Len(failed_issues) = 2
    /\ results = <<"created", "failed", "failed">>

\* C5: main() returns 1 when the plan file does not exist or when parsing
\* yields no task, and then no tracker client has been constructed and no
\* create_issue call has been made.
C5_EarlyExit ==
    (~plan_exists \/ parse_refactor_plan(content) = <<>>)
        => /\ api = "none"
           /\ calls = <<>>
           /\ pc \in {"start", "parsed", "done"}
           /\ pc = "done" => exit_code = 1
           /\ pc # "done" => ENABLED (PlanMissing \/ ParsePlan \/ NoTasks)

C5_Witness ==
    /\ pc = "done"
    /\ plan_exists
    /\ content # <<>>
    /\ tasks = <<>>
    /\ exit_code = 1

\* C6: the parser returns exactly one record per task heading of the text,
\* in the order of the text, with the id of its heading (equal ids kept).
C6_OneRecordPerHeading ==
    pc = "parsed" => [k \in 1..Len(tasks) |-> tasks[k].id] = HeadingIds(content)

C8_EnumFields ==
    \A k \in 1..Len(tasks) :
        /\ tasks[k].priority \in {<<"urgent">>, <<"high">>, <<"medium">>, <<"low">>}
        /\ tasks[k].risk \in {<<"high">>, <<"medium">>, <<"low">>}

\* C8 as amended: every record's priority and risk is a non-empty word in
\* lower case: 'medium', or the word that follows the label in the text,
\* lowered; it lies in the enumerated set when that word does.
C8_LowerCaseWords ==
    \A k \in 1..Len(tasks) :
        /\ \A f \in {tasks[k].priority, tasks[k].risk} :
              /\ f # <<>>
              /\ \A j \in 1..Len(f) : IsWord(f[j]) /\ LowerSym(f[j]) = f[j]
        /\ \/ tasks[k].priority = <<"medium">>
           \/ \E p \in 1..Len(content) :
                 /\ content[p] = L_PRIORITY
                 /\ \E q \in (p + 2)..Len(content) :
                       Lower(SubSeq(content, q, q + Len(tasks[k].priority) - 1))
                           = tasks[k].priority
        /\ \/ tasks[k].risk = <<"medium">>
           \/ \E p \in 1..Len(content) :
                 /\ content[p] = L_RISK
                 /\ \E q \in (p + 2)..Len(content) :
                       Lower(SubSeq(content, q, q + Len(tasks[k].risk) - 1))
                           = tasks[k].risk

C8_Witness ==
    /\ Parsed
    /\ Len(tasks) = 1
    /\ tasks[1].priority = <<"critical">>
    /\ tasks[1].risk = <<"high">>

\* C9 as stated: rendering any task record in the labeled-field format and
\* parsing the text gives back exactly that record.
C9_RoundTrip ==
    pc = "rt_parsed" => tasks = <<record>>

\* C9 as amended: the round trip gives back the record when its title,
\* effort and dependencies are well-formed lines (not empty, no whitespace
\* around them, no "#", no field label).
C9_RoundTripWellFormed ==
    (/\ pc = "rt_parsed"
     /\ WellFormedLine(record.title)
     /\ WellFormedLine(record.effort)
     /\ WellFormedLine(record.dependencies))
        => tasks = <<record>>

C9_Witness ==
    /\ pc = "rt_parsed"
    /\ record.title = <<"Fix", SP, "bug">>
    /\ record.effort = <<"2", SP, "days">>
    /\ record.dependencies = TASK \o <<"1">>
    /\ record.priority = <<"urgent">>
    /\ record.risk = <<"low">>
    /\ Len(record.what) > 3
    /\ Len(record.why) = 3
    /\ Len(record.criteria) > 7
    /\ tasks = <<record>>

\* C10: the labels of every create_issue call are 'modernization', the
\* priority label of the record's priority and, exactly when the record's
\* risk is 'high', 'high-risk'; nothing else, and nothing twice.
C10_Labels ==
    \A j \in 1..Len(calls) :
        /\ Range(calls[j].labels) =
              {"modernization", get_priority_label(tasks[calls[j].task].priority)}
                \cup (IF tasks[calls[j].task].risk = <<"high">>
                      THEN {"high-risk"} ELSE {})
        /\ Len(calls[j].labels) = Cardinality(Range(calls[j].labels))
        /\ calls[j].labels[1] = "modernization"

C10_Witness ==
    /\ Len(calls) = 2
    /\ calls[1].labels = <<"modernization", "priority:medium", "high-risk">>
    /\ calls[2].labels = <<"modernization", "priority:medium">>


\* C11: get_priority_label is total: 'urgent' and 'high' give
\* 'priority:high', 'medium' gives 'priority:medium', 'low' gives
\* 'priority:low', and every other string (the empty string and 'unknown'
\* included) gives 'priority:medium'; the result is always one of the three
\* labels.
C11_LabelTotal ==
    pc = "label_done" =>
        LET p == Lower(priority_arg)
        IN  /\ label_ret \in {"priority:high", "priority:medium", "priority:low"}
            /\ label_ret = "priority:high" <=> p \in {<<"urgent">>, <<"high">>}
            /\ label_ret = "priority:low" <=> p = <<"low">>
            /\ p \notin {<<"urgent">>, <<"high">>, <<"low">>}
                   => label_ret = "priority:medium"

\* an unknown priority word has been mapped to the default
C11_Witness ==
    /\ pc = "label_done"
    /\ priority_arg = <<"unknown">>
    /\ label_ret = "priority:medium"

\* C12: the report generator is pure and deterministic: any two renderings
\* of the same results dictionary are the same text, whatever the time of
\* rendering and the state of the file system.
C12_RenderDeterministic ==
    \A i, j \in 1..Len(reports) : reports[i] = reports[j]

\* the lines of one list section of a report
SectionLines(report, kind) == SelectSeq(report, LAMBDA l : l[1] = kind)

\* the entries are shown in descending order of the metric, entries with an
\* equal metric in the order of the list, and no entry left out ranks
\* before a shown one; name(e) identifies an entry and key(e) is its metric
ShownInOrder(list, shown, name(_), key(_)) ==
    LET pos(i) == CHOOSE p \in 1..Len(list) : name(list[p]) = shown[i][2]
        before(p, q) ==
            \/ key(list[p]) > key(list[q])
            \/ key(list[p]) = key(list[q]) /\ p < q
    IN  /\ \A i \in 1..Len(shown) :
              \E p \in 1..Len(list) : name(list[p]) = shown[i][2]
        /\ \A i, j \in 1..Len(shown) : i < j => before(pos(i), pos(j))
        /\ \A i \in 1..Len(shown) :
              \A q \in 1..Len(list) :
                  (\A j \in 1..Len(shown) : pos(j) # q) => before(pos(i), q)

\* C13: the large-file list is put out in descending order of line count and
\* the complex-function list in descending order of score; entries with an
\* equal metric keep the order in which they were found (line counts
\* [520, 900, 501] are put out as [900, 520, 501]).
C13_SortedStable ==
    \A r \in 1..Len(reports) :
        LET large == SectionLines(reports[r], "large_file")
            complex == SectionLines(reports[r], "complex_function")
        IN  /\ ShownInOrder(assessment.large_files, large,
                            LAMBDA e : e[1], LAMBDA e : e[2])
            /\ \A i \in 1..Len(large) :
                  \E e \in Range(assessment.large_files) :
                      large[i] = <<"large_file", e[1], Commas(e[2])>>
            /\ ShownInOrder(assessment.complex_functions,
                            [i \in 1..Len(complex) |->
                                <<"complex_function", complex[i][3]>>],
                            LAMBDA e : e[2], LAMBDA e : e[3])
            /\ \A i \in 1..Len(complex) :
                  \E e \in Range(assessment.complex_functions) :
                      complex[i] = <<"complex_function", e[1], e[2], e[3]>>

\* files of 520, 900 and 520 lines have been reported as 900, 520, 520 with
\* the first file of 520 lines before the third
C13_Witness ==
    /\ reports # <<>>
    /\ assessment.large_files
         = <<<<PathOf(1), 520>>, <<PathOf(2), 900>>, <<PathOf(3), 520>>>>
    /\ SectionLines(reports[1], "large_file")
         = <<<<"large_file", PathOf(2), <<900>>>>,
             <<"large_file", PathOf(1), <<520>>>>,
             <<"large_file", PathOf(3), <<520>>>>>>

\* one list section shows at most TopN entries and, for a list of more than
\* TopN entries, the line '... and N more' follows the last entry shown,
\* N being the number of entries not shown
CappedWithMore(report, kind, list) ==
    LET shown == {i \in 1..Len(report) : report[i][1] = kind}
    IN  /\ Cardinality(shown) <= TopN
        /\ Len(list) > TopN =>
              /\ shown # {}
              /\ Max(shown) < Len(report)
              /\ report[Max(shown) + 1]
                   = <<"... and ", Len(list) - Cardinality(shown), " more">>

\* C14: every list section (large files, complex functions, TODOs) shows at
\* most the top 10 entries and reports the full count, and a list of more
\* than 10 entries is followed by a line '... and N more' with N the full
\* count minus the number of entries shown.
C14_TopTenAndMore ==
    \A r \in 1..Len(reports) :
        /\ CappedWithMore(reports[r], "large_file", assessment.large_files)
        /\ CappedWithMore(reports[r], "complex_function",
                          assessment.complex_functions)
        /\ CappedWithMore(reports[r], "todo", assessment.todos)
        /\ <<"- **Large Files (>500 lines)**: ", Len(assessment.large_files)>>
              \in Range(reports[r])
        /\ <<"- **Complex Functions (complexity >10)**: ",
             Len(assessment.complex_functions)>> \in Range(reports[r])
        /\ <<"- **TODO/FIXME Comments**: ", Len(assessment.todos)>>
              \in Range(reports[r])

\* C15: putting one more occurrence of a keyword (if, for, while, and, or,
\* elif, except) into the body window of a function raises the score of
\* that function by exactly one.
C15_KeywordAddsOne ==
    pc = "cx_done" =>
        analysis.scores[inserted.function].complexity
            = prev_analysis.scores[inserted.function].complexity + 1

\* the window of the function matched at start as the specification
\* describes it: the characters from the start of the match up to the next
\* 'def' or the end of the file
ClaimedWindow(s, start) ==
    LET later == {p \in (start + 1)..Len(s) : HasAt(s, p, DefWord)}
    IN  SubSeq(s, start, IF later = {} THEN Len(s) ELSE Min(later) - 1)

\* the files of the tree in the order the scan takes them
AllFiles(r) == r.py_files \o r.js_files

\* the lines of the readable ones of the first n files
RECURSIVE ReadableLines(_, _)
ReadableLines(files, n) ==
    IF n = 0 THEN 0
    ELSE ReadableLines(files, n - 1)
           + (IF files[n].readable THEN LineCount(files[n]) ELSE 0)

\* C16: a file that cannot be read or decoded has line count 0 and stops
\* nothing: it adds 0 to total_lines, it is never listed as large, and the
\* scan goes on to process every remaining file.
C16_UnreadableCountsZero ==
    LET files == AllFiles(root)
    IN  /\ Len(visited) <= Len(files)
        /\ \A k \in 1..Len(visited) : visited[k] = files[k].path
        /\ assessment.total_lines = ReadableLines(files, Len(visited))
        /\ \A k \in 1..Len(files) :
              ~files[k].readable =>
                  \A e \in Range(assessment.large_files) : e[1] # files[k].path
        /\ pc = "scan_done" => Len(visited) = Len(files)

\* a scan has finished in which a file of 601 lines that cannot be read came
\* first and the large file behind it was counted and listed
C16_Witness ==
    /\ pc = "scan_done"
    /\ Len(root.py_files) = 2
    /\ ~root.py_files[1].readable
    /\ LineCount(root.py_files[1]) = 601
    /\ visited = <<PathOf(1), PathOf(2)>>
    /\ assessment.total_lines = 501
    /\ assessment.large_files = <<<<PathOf(2), 501>>>>

\* C17: at every function definition the score is the number of keyword
\* occurrences in the body window, the text from the start of the match up
\* to the next 'def' or the end of the file, and the function is reported as
\* highly complex exactly when its score is above 10.
C17_ScoreOfWindow ==
    pc \in {"cx_analyzed", "cx_done"} =>
        /\ \A k \in 1..Len(analysis.scores) :
              analysis.scores[k].complexity
                  = SumCounts(ClaimedWindow(file_text, analysis.scores[k].start), 1)
        /\ analysis.high_complexity
              = LET high == SelectSeq(analysis.scores,
                                      LAMBDA f : f.complexity > ComplexityThreshold)
                IN  [k \in 1..Len(high) |-> <<high[k].name, high[k].complexity>>]

\* the positions of the task headings of a text, in order
TaskHeadingPositions(s) ==
    SelectSeq([p \in 1..Len(s) |-> p], LAMBDA p : TaskHeadingAt(s, p))

\* the text between the k-th task heading and the next task heading (or the
\* end of the text), from the title on
ClaimedBlock(s, k) ==
    LET at == TaskHeadingPositions(s)
    IN  SubSeq(s, HeadBlockFrom(s, at[k]),
               IF k < Len(at) THEN at[k + 1] - 1 ELSE Len(s))

\* C18: a task block reaches from its task heading to the next task heading
\* or the end of the text: every labeled field in between belongs to the
\* record of that task, whatever lies in between, sequences '####' that are
\* no task headings included.
C18_BlockToNextTask ==
    pc = "parsed" =>
        /\ Len(tasks) = Len(TaskHeadingPositions(content))
        /\ \A k \in 1..Len(tasks) :
              LET t == ParseTask(<<>>, ClaimedBlock(content, k))
              IN  /\ tasks[k].priority = t.priority
                  /\ tasks[k].risk = t.risk
                  /\ tasks[k].effort = t.effort
                  /\ tasks[k].dependencies = t.dependencies
                  /\ tasks[k].what = t.what
                  /\ tasks[k].why = t.why
                  /\ tasks[k].criteria = t.criteria

\* C19: the framework is decided by the first rule that matches, in a fixed
\* order: 'Django' with manage.py; else 'Flask' with app.py or wsgi.py; else,
\* with package.json, 'React' if 'react' is among the dependencies and
\* devDependencies, else 'Express' if 'express' is; 'Unknown' in every
\* other case, a manifest that cannot be read or parsed included.  A marker
\* of lower priority never overrides one of higher priority.
C19_FrameworkPriority ==
    pc = "scan_done" =>
        LET fw == assessment.framework
            flask == root.app_py \/ root.wsgi_py
            declared ==
                IF root.package_json.state = "ok"
                THEN root.package_json.dependencies
                        \cup root.package_json.devDependencies
                ELSE {}
        IN  /\ root.manage_py => fw = "Django"
            /\ ~root.manage_py /\ flask => fw = "Flask"
            /\ ~root.manage_py /\ ~flask /\ "react" \in declared => fw = "React"
            /\ ~root.manage_py /\ ~flask /\ "react" \notin declared
                 /\ "express" \in declared => fw = "Express"
            /\ ~root.manage_py /\ ~flask /\ "react" \notin declared
                 /\ "express" \notin declared => fw = "Unknown"

\* a tree with manage.py, app.py and a manifest that declares react has
\* been classified as Django
C19_Witness ==
    /\ pc = "scan_done"
    /\ root.manage_py
    /\ root.app_py
    /\ root.package_json.state = "ok"
    /\ "react" \in root.package_json.devDependencies
    /\ assessment.framework = "Django"

\* the positions of a label in a block
LabelAt(b, label) == {p \in 1..Len(b) : b[p] = label}

\* the block up to its second occurrence of the label
BeforeSecond(b, label) ==
    SubSeq(b, 1, Min(LabelAt(b, label) \ {Min(LabelAt(b, label))}) - 1)

\* the label at position p is followed on its line by blanks and a value
\* (a word, if word is TRUE)
ValueOnLine(b, p, word) ==
    LET g == SpaceRunEnd(b, p + 1)
    IN  /\ g > p + 1
        /\ g <= Len(b)
        /\ \A q \in (p + 1)..(g - 1) : b[q] # NL
        /\ word => IsWord(b[g])

\* C20: when a block holds the same label (Priority, Risk, Effort,
\* Dependencies) more than once, the field has the value of the first
\* occurrence and the later occurrences have no effect on the record: the
\* field is what the block cut before the second occurrence gives.
C20_FirstOccurrenceWins ==
    pc = "parsed" =>
        LET m == TaskMatches(content, 1)
        IN  \A k \in 1..Len(m) :
                LET b == m[k][2]
                    twice(label) == Cardinality(LabelAt(b, label)) >= 2
                IN  /\ twice(L_PRIORITY) =>
                          tasks[k].priority = TaskPriority(BeforeSecond(b, L_PRIORITY))
                    /\ twice(L_RISK) =>
                          tasks[k].risk = TaskRisk(BeforeSecond(b, L_RISK))
                    /\ twice(L_EFFORT) =>
                          tasks[k].effort = TaskEffort(BeforeSecond(b, L_EFFORT))
                    /\ twice(L_DEPS) =>
                          tasks[k].dependencies
                              = TaskDependencies(BeforeSecond(b, L_DEPS))

\* C20 (amended): when a block holds the same label more than once and the
\* first occurrence is followed on its line by a value, the field has the
\* value of the first occurrence and the later occurrences have no effect.
C20_FirstValuedWins ==
    pc = "parsed" =>
        LET m == TaskMatches(content, 1)
        IN  \A k \in 1..Len(m) :
                LET b == m[k][2]
                    twice(label, word) ==
                        /\ Cardinality(LabelAt(b, label)) >= 2
                        /\ ValueOnLine(b, Min(LabelAt(b, label)), word)
                IN  /\ twice(L_PRIORITY, TRUE) =>
                          tasks[k].priority = TaskPriority(BeforeSecond(b, L_PRIORITY))
                    /\ twice(L_RISK, TRUE) =>
                          tasks[k].risk = TaskRisk(BeforeSecond(b, L_RISK))
                    /\ twice(L_EFFORT, FALSE) =>
                          tasks[k].effort = TaskEffort(BeforeSecond(b, L_EFFORT))
                    /\ twice(L_DEPS, FALSE) =>
                          tasks[k].dependencies
                              = TaskDependencies(BeforeSecond(b, L_DEPS))

\* a block with the lines '**Priority**: High' and '**Priority**: low' has
\* been parsed to priority 'high'
C20_Witness ==
    /\ pc = "parsed"
    /\ content = BlockSegments[1] \o BlockSegments[4] \o BlockSegments[5]
    /\ Len(tasks) = 1
    /\ tasks[1].priority = <<"high">>

\* the sum of the counts of the language histogram
RECURSIVE HistogramTotal(_)
HistogramTotal(languages) ==
    IF languages = <<>> THEN 0
    ELSE languages[1][2] + HistogramTotal(Tail(languages))

\* the line count of the k-th file of the tree: 0 if it cannot be read
LinesOfFile(r, k) ==
    IF AllFiles(r)[k].readable THEN LineCount(AllFiles(r)[k]) ELSE 0

\* C21: in the results of analyze_codebase, for every tree, total_files is
\* the sum of the counts of the language histogram and the number of Python
\* and JS/TS files found; total_lines is the sum of the line counts of
\* exactly these files; and every entry of large_files is a file found whose
\* line count is above 500, each such file being listed exactly once.
C21_Totals ==
    pc = "scan_done" =>
        LET files == AllFiles(root)
            large == assessment.large_files
        IN  /\ assessment.total_files = HistogramTotal(assessment.languages)
            /\ assessment.total_files = Len(root.py_files) + Len(root.js_files)
            /\ assessment.total_lines = ReadableLines(files, Len(files))
            /\ \A i \in 1..Len(large) :
                  \E k \in 1..Len(files) :
                      /\ large[i] = <<files[k].path, LinesOfFile(root, k)>>
                      /\ LinesOfFile(root, k) > LargeThreshold
            /\ \A k \in 1..Len(files) :
                  Cardinality({i \in 1..Len(large) : large[i][1] = files[k].path})
                      = IF LinesOfFile(root, k) > LargeThreshold THEN 1 ELSE 0

\* a scan has finished of a Python file of 500 lines, one of 501 lines and a
\* JS file of 501 lines: three files, 1502 lines, the last two listed
C21_Witness ==
    /\ pc = "scan_done"
    /\ Len(root.py_files) = 2
    /\ Len(root.js_files) = 1
    /\ LinesOfFile(root, 1) = 500
    /\ LinesOfFile(root, 2) = 501
    /\ assessment.total_files = 3
    /\ assessment.total_lines = 1502
    /\ assessment.large_files = <<<<PathOf(2), 501>>, <<JsPathOf(1), 501>>>>

\* a create_issue call has ended with an error that is no GitHubAPIError
OtherErrorRaised == \E k \in 1..Len(results) : results[k] = "raised"

\* C22: only tracker errors (GitHubAPIError) are handled per task; when a
\* create_issue attempt fails with any other error, the error leaves the
\* batch: the task is recorded neither as created nor as failed, no later
\* task is attempted, and no outcome and no exit code 0 or 1 is produced.
C22_OtherErrorPropagates ==
    /\ [](OtherErrorRaised =>
            /\ results[Len(results)] = "raised"
            /\ Len(calls) = Len(results)
            /\ Len(created_issues) + Len(failed_issues) = Len(calls) - 1
            /\ exit_code = "none")
    /\ [][OtherErrorRaised =>
            UNCHANGED <<calls, created_issues, failed_issues, exit_code>>]_vars

\* the second of three tasks has failed with another error after the first
\* was created: one record, two attempts, no exit code
C22_Witness ==
    /\ pc = "raised"
    /\ Len(tasks) = 3
    /\ Len(calls) = 2
    /\ results = <<"created", "raised">>
    /\ Len(created_issues) = 1
    /\ failed_issues = <<>>
    /\ exit_code = "none"
====
